---- MODULE Spec2Model ----
(***************************************************************************)
(* Model of the admin dashboard view, src/src/pages/Admin.tsx.             *)
(*                                                                         *)
(* The component's state is the six useState cells.  Every await in a      *)
(* handler splits it in two steps: the call (which captures the values of  *)
(* the render it was created in) and the continuation that runs when the   *)
(* backend answers.  The state updates of one continuation are one step    *)
(* (they are rendered together).  A continuation that runs after the guard *)
(* has navigated away still calls its setters; nothing is offered to the   *)
(* user any more.  The backend is its two tables as the view reads them on *)
(* mount and the answer, success or error, it gives to every request; the  *)
(* view never reads a row again after updating it.  Strings that are       *)
(* searched are sequences of one-character strings, so that toLowerCase    *)
(* and includes are computed.                                              *)
(***************************************************************************)
EXTENDS Integers, Sequences, FiniteSets, Bags

\* ---------------------------------------------------------------- bounds
MaxCalls == 2
MaxQueryLen == 2
MaxFilterUsers == 2

\* ------------------------------------------------------------ vocabulary
NoUser == 0
\* null / undefined, and a value that is there; Absent also names the missing profile
Null == <<>>
Some(v) == <<v>>
Absent == "absent"

UserTypes == {"client", "artist", "admin"}
UserStatuses == {"active", "inactive"}
InfractionStatuses == {"pending", "resolved"}

AccessDenied == "Acceso denegado. Solo los administradores pueden acceder a esta pagina."
LoadError == "Error al cargar los datos"
BlockSuccess == "Usuario bloqueado exitosamente"
BlockError == "Error al bloquear el usuario"
ResolveSuccess == "Infraccion resuelta exitosamente"
ResolveError == "Error al resolver la infraccion"
Messages == {AccessDenied, LoadError, BlockSuccess, BlockError, ResolveSuccess, ResolveError}

Chars == {"a", "A", "b"}

RECURSIVE StringsUpTo(_)
StringsUpTo(n) ==
  IF n = 0 THEN {<<>>}
  ELSE LET shorter == StringsUpTo(n - 1)
       IN shorter \cup {Append(s, c) : s \in {t \in shorter : Len(t) = n - 1}, c \in Chars}

\* ------------------------------------------------------- string functions
toLowerCaseChar(c) == IF c = "A" THEN "a" ELSE c

toLowerCase(s) == [i \in 1..Len(s) |-> toLowerCaseChar(s[i])]

includes(s, t) ==
  \E k \in 0..(Len(s) - Len(t)) : \A j \in 1..Len(t) : s[k + j] = t[j]

VARIABLES
  sessionUser, dbProfiles, dbInfractions,
  users, infractions, loading, searchTerm,
  selectedInfraction, isInfractionModalOpen,
  guardPc, guardUser, guardProfile, loaderPc, loadError,
  navigatedTo, toasts, blockCalls, resolveCalls, issued, answered

vars == <<sessionUser, dbProfiles, dbInfractions,
          users, infractions, loading, searchTerm,
          selectedInfraction, isInfractionModalOpen,
          guardPc, guardUser, guardProfile, loaderPc, loadError,
          navigatedTo, toasts, blockCalls, resolveCalls, issued, answered>>

backendVars == <<sessionUser, dbProfiles, dbInfractions>>
guardVars == <<guardPc, guardUser, guardProfile>>
loaderVars == <<loaderPc, loadError>>
modalVars == <<selectedInfraction, isInfractionModalOpen>>

\* toast.error / toast.success
toast(msg) == toasts' = [toasts EXCEPT ![msg] = @ + 1]

\* ------------------------------------------------------------ data shapes
\* interface User (created_at only fixes the order of the list, which is the
\* order of the sequence)
User(id, email, full_name, user_type, status) ==
  [id |-> id, email |-> email, full_name |-> full_name,
   user_type |-> user_type, status |-> status]

\* interface Infraction (the descriptive fields are only displayed)
Infraction(id, status) == [id |-> id, status |-> status]

\* The names and e-mails of the rows of the profiles tables explored by Spec.
NameOf(id) ==
  IF id = 1 THEN Null ELSE IF id = 2 THEN Some(<<"A", "b">>) ELSE Some(<<"b">>)
EmailOf(id) ==
  IF id = 1 THEN Some(<<"a">>) ELSE IF id = 2 THEN Some(<<"b", "a">>) ELSE Some(<<"b", "b">>)

Row(id, user_type, status) == User(id, EmailOf(id), NameOf(id), user_type, status)

\* The profiles tables of the backend explored by Spec: no rows; two users that
\* can be blocked; an admin and two users that can be blocked; a client first,
\* with an admin and a blocked artist; a blocked admin with a blocked and an
\* active user.
ProfileTables ==
  { <<>>,
    <<Row(1, "artist", "active"), Row(2, "client", "active")>>,
    <<Row(1, "admin", "active"), Row(2, "client", "active"), Row(3, "artist", "active")>>,
    <<Row(1, "client", "active"), Row(2, "admin", "active"), Row(3, "artist", "inactive")>>,
    <<Row(1, "admin", "inactive"), Row(2, "client", "inactive"), Row(3, "artist", "active")>> }

\* The infractions tables of the backend explored by Spec.
InfractionTables ==
  { <<>>,
    <<Infraction(1, "pending"), Infraction(2, "pending")>>,
    <<Infraction(1, "resolved"), Infraction(2, "pending")>> }

\* The sessions explored by Spec: none, the first profile's, one whose user has
\* no row in any of the profiles tables.
Sessions == {NoUser, 1, 4}

\* The search terms typed in Spec.
TypedTerms == {<<>>, <<"A">>}

\* The answer of the backend to an update, for the step in which the waiting
\* handler resumes: which handler, for which row, and whether `error` was empty.
\* Any other step leaves NoAnswer.
NoAnswer == [op |-> "none", id |-> 0, ok |-> FALSE]
Answer(op, id, ok) == [op |-> op, id |-> id, ok |-> ok]

\* ------------------------------------------------------------------ state
Init ==
  /\ sessionUser \in Sessions
  /\ dbProfiles \in ProfileTables
  /\ dbInfractions \in InfractionTables
  /\ users = <<>>
  /\ infractions = <<>>
  /\ loading = TRUE
  /\ searchTerm = <<>>
  /\ selectedInfraction = Null
  /\ isInfractionModalOpen = FALSE
  /\ guardPc = "getUser"
  /\ guardUser = NoUser
  /\ guardProfile = Absent
  /\ loaderPc = "users"
  /\ loadError = "none"
  /\ navigatedTo = "none"
  /\ toasts = [m \in Messages |-> 0]
  /\ blockCalls = EmptyBag
  /\ resolveCalls = EmptyBag
  /\ issued = 0
  /\ answered = NoAnswer

\* The component is on screen until the guard navigates away.
Mounted == navigatedTo = "none"

\* The dashboard (tables, search box, modal) is rendered instead of the spinner.
DashboardRendered == Mounted /\ ~loading

\* ----------------------------------------------------------- access guard
\* const { data: { user } } = await supabase.auth.getUser(); if (!user) ...
GuardGetUserReturn(ok) ==
  /\ answered' = NoAnswer
  /\ guardPc = "getUser"
  /\ guardUser' = IF ok THEN sessionUser ELSE NoUser
  /\ IF guardUser' = NoUser
       THEN /\ navigatedTo' = "/auth"
            /\ guardPc' = "done"
       ELSE /\ guardPc' = "getProfile"
            /\ UNCHANGED navigatedTo
  /\ UNCHANGED <<guardProfile, toasts>>
  /\ UNCHANGED <<backendVars, users, infractions, loading, searchTerm, modalVars,
                 loaderVars, blockCalls, resolveCalls, issued>>

\* .from('profiles').select('user_type').eq('id', user.id).single()
ProfileUserType(id, ok) ==
  IF ok /\ id \in 1..Len(dbProfiles) THEN dbProfiles[id].user_type ELSE Absent

\* GuardProfileReturn with `profile && profile.user_type !== 'admin'`: a missing
\* profile is let through.
GuardProfileReturnMissingPasses(ok) ==
  /\ answered' = NoAnswer
  /\ guardPc = "getProfile"
  /\ guardProfile' = ProfileUserType(guardUser, ok)
  /\ guardPc' = "done"
  /\ IF guardProfile' # Absent /\ guardProfile' # "admin"
       THEN /\ toast(AccessDenied)
            /\ navigatedTo' = "/"
       ELSE UNCHANGED <<toasts, navigatedTo>>
  /\ UNCHANGED guardUser
  /\ UNCHANGED <<backendVars, users, infractions, loading, searchTerm, modalVars,
                 loaderVars, blockCalls, resolveCalls, issued>>

\* GuardProfileReturn without navigate('/').
GuardProfileReturnToastOnly(ok) ==
  /\ answered' = NoAnswer
  /\ guardPc = "getProfile"
  /\ guardProfile' = ProfileUserType(guardUser, ok)
  /\ guardPc' = "done"
  /\ IF guardProfile' = Absent \/ guardProfile' # "admin"
       THEN /\ toast(AccessDenied)
            /\ UNCHANGED navigatedTo
       ELSE UNCHANGED <<toasts, navigatedTo>>
  /\ UNCHANGED guardUser
  /\ UNCHANGED <<backendVars, users, infractions, loading, searchTerm, modalVars,
                 loaderVars, blockCalls, resolveCalls, issued>>

\* const { data: profile } = await ...; if (!profile || profile.user_type !== 'admin') ...
GuardProfileReturn(ok) ==
  /\ answered' = NoAnswer
  /\ guardPc = "getProfile"
  /\ guardProfile' = ProfileUserType(guardUser, ok)
  /\ guardPc' = "done"
  /\ IF guardProfile' = Absent \/ guardProfile' # "admin"
       THEN /\ toast(AccessDenied)
            /\ navigatedTo' = "/"
       ELSE UNCHANGED <<toasts, navigatedTo>>
  /\ UNCHANGED guardUser
  /\ UNCHANGED <<backendVars, users, infractions, loading, searchTerm, modalVars,
                 loaderVars, blockCalls, resolveCalls, issued>>

\* ------------------------------------------------------------ data loader
\* LoadUsersReturn with setLoading(false) at the end of try instead of finally.
LoadUsersReturnNoFinally(ok) ==
  /\ answered' = NoAnswer
  /\ loaderPc = "users"
  /\ IF ok
       THEN /\ users' = dbProfiles
            /\ loaderPc' = "infractions"
            /\ UNCHANGED <<loading, loadError, toasts>>
       ELSE /\ toast(LoadError)
            /\ loading' = loading
            /\ loaderPc' = "done"
            /\ loadError' = "users"
            /\ UNCHANGED users
  /\ UNCHANGED <<backendVars, infractions, searchTerm, modalVars, guardVars,
                 navigatedTo, blockCalls, resolveCalls, issued>>

\* first await of loadData: the profiles query
LoadUsersReturn(ok) ==
  /\ answered' = NoAnswer
  /\ loaderPc = "users"
  /\ IF ok
       THEN /\ users' = dbProfiles
            /\ loaderPc' = "infractions"
            /\ UNCHANGED <<loading, loadError, toasts>>
       ELSE /\ toast(LoadError)
            /\ loading' = FALSE
            /\ loaderPc' = "done"
            /\ loadError' = "users"
            /\ UNCHANGED users
  /\ UNCHANGED <<backendVars, infractions, searchTerm, modalVars, guardVars,
                 navigatedTo, blockCalls, resolveCalls, issued>>

\* LoadInfractionsReturn with a catch that also calls setUsers([]).
LoadInfractionsReturnResets(ok) ==
  /\ answered' = NoAnswer
  /\ loaderPc = "infractions"
  /\ IF ok
       THEN /\ infractions' = dbInfractions
            /\ UNCHANGED <<loadError, toasts>>
       ELSE /\ toast(LoadError)
            /\ loadError' = "infractions"
            /\ UNCHANGED infractions
  /\ users' = IF ok THEN users ELSE <<>>
  /\ loading' = FALSE
  /\ loaderPc' = "done"
  /\ UNCHANGED <<backendVars, searchTerm, modalVars, guardVars,
                 navigatedTo, blockCalls, resolveCalls, issued>>

\* second await of loadData: the infractions query, then finally
LoadInfractionsReturn(ok) ==
  /\ answered' = NoAnswer
  /\ loaderPc = "infractions"
  /\ IF ok
       THEN /\ infractions' = dbInfractions
            /\ UNCHANGED <<loadError, toasts>>
       ELSE /\ toast(LoadError)
            /\ loadError' = "infractions"
            /\ UNCHANGED infractions
  /\ loading' = FALSE
  /\ loaderPc' = "done"
  /\ UNCHANGED <<backendVars, users, searchTerm, modalVars, guardVars,
                 navigatedTo, blockCalls, resolveCalls, issued>>

\* ---------------------------------------------------------- search filter
\* user.full_name?.toLowerCase().includes(searchTerm.toLowerCase())
fullNameMatches(user, term) ==
  /\ user.full_name # Null
  /\ includes(toLowerCase(user.full_name[1]), toLowerCase(term))

\* emailMatches without searchTerm.toLowerCase().
emailMatchesCaseSensitiveTerm(user, term) ==
  /\ user.email # Null
  /\ includes(toLowerCase(user.email[1]), term)

\* user.email?.toLowerCase().includes(searchTerm.toLowerCase())
emailMatches(user, term) ==
  /\ user.email # Null
  /\ includes(toLowerCase(user.email[1]), toLowerCase(term))

userMatches(user, term) == fullNameMatches(user, term) \/ emailMatches(user, term)

RECURSIVE filter(_, _)
filter(list, term) ==
  IF list = <<>> THEN <<>>
  ELSE IF userMatches(Head(list), term)
         THEN <<Head(list)>> \o filter(Tail(list), term)
         ELSE filter(Tail(list), term)

filteredUsers == filter(users, searchTerm)

\* onChange={(e) => setSearchTerm(e.target.value)}
SetSearchTerm(q) ==
  /\ answered' = NoAnswer
  /\ DashboardRendered
  /\ q # searchTerm
  /\ searchTerm' = q
  /\ UNCHANGED <<backendVars, users, infractions, loading, modalVars, guardVars,
                 loaderVars, navigatedTo, toasts, blockCalls, resolveCalls, issued>>

\* -------------------------------------------------------------- block user
\* BlockOffered without `user.user_type !== 'admin'`.
BlockOfferedAnyRole(user) ==
  /\ Mounted /\ ~loading
  /\ \E i \in 1..Len(filter(users, searchTerm)) : filter(users, searchTerm)[i] = user
  /\ user.status = "active"

\* {user.status === 'active' && user.user_type !== 'admin' && ( <AlertDialog> ... )}
\* inside filteredUsers.map
BlockOffered(user) ==
  /\ DashboardRendered
  /\ \E i \in 1..Len(filteredUsers) : filteredUsers[i] = user
  /\ user.status = "active"
  /\ user.user_type # "admin"

\* onClick={() => handleBlockUser(user.id)}: the handler of the current render,
\* which closes over that render's users, runs up to its await
ConfirmBlock(user) ==
  /\ answered' = NoAnswer
  /\ BlockOffered(user)
  /\ issued < MaxCalls
  /\ issued' = issued + 1
  /\ blockCalls' = blockCalls (+) SetToBag({[userId |-> user.id, users |-> users]})
  /\ UNCHANGED <<backendVars, users, infractions, loading, searchTerm, modalVars,
                 guardVars, loaderVars, navigatedTo, toasts, resolveCalls>>

\* users.map(user => user.id === userId ? { ...user, status: 'inactive' } : user)
blockPatch(list, userId) ==
  [i \in 1..Len(list) |->
     IF list[i].id = userId THEN [list[i] EXCEPT !.status = "inactive"] ELSE list[i]]

\* the backend answers the update; the rest of handleBlockUser runs
BlockReturn(call, ok) ==
  /\ answered' = Answer("block", call.userId, ok)
  /\ BagIn(call, blockCalls)
  /\ blockCalls' = blockCalls (-) SetToBag({call})
  /\ IF ok
       THEN /\ users' = blockPatch(call.users, call.userId)
            /\ toast(BlockSuccess)
       ELSE /\ toast(BlockError)
            /\ UNCHANGED users
  /\ UNCHANGED <<backendVars, infractions, loading, searchTerm, modalVars,
                 guardVars, loaderVars, navigatedTo, resolveCalls, issued>>

\* ------------------------------------------------------ infraction details
\* onClick={() => handleViewInfractionDetails(infraction)} in infractions.map
ViewInfractionDetails(i) ==
  /\ answered' = NoAnswer
  /\ DashboardRendered
  /\ i \in 1..Len(infractions)
  /\ selectedInfraction' = Some(infractions[i])
  /\ isInfractionModalOpen' = TRUE
  /\ UNCHANGED <<backendVars, users, infractions, loading, searchTerm, guardVars,
                 loaderVars, navigatedTo, toasts, blockCalls, resolveCalls, issued>>

\* <Dialog open={isInfractionModalOpen} onOpenChange={setIsInfractionModalOpen}>:
\* the dialog has no trigger, so it only ever asks to be closed
CloseModal ==
  /\ answered' = NoAnswer
  /\ DashboardRendered
  /\ isInfractionModalOpen
  /\ isInfractionModalOpen' = FALSE
  /\ UNCHANGED <<backendVars, users, infractions, loading, searchTerm, selectedInfraction,
                 guardVars, loaderVars, navigatedTo, toasts, blockCalls, resolveCalls, issued>>

\* {selectedInfraction.status === 'pending' && ( <Button ...> )} inside the open dialog
ResolveOffered ==
  /\ DashboardRendered
  /\ isInfractionModalOpen
  /\ selectedInfraction # Null
  /\ selectedInfraction[1].status = "pending"

\* onClick={() => handleResolveInfraction(selectedInfraction.id)}
ClickResolve ==
  /\ answered' = NoAnswer
  /\ ResolveOffered
  /\ issued < MaxCalls
  /\ issued' = issued + 1
  /\ resolveCalls' = resolveCalls (+)
       SetToBag({[infractionId |-> selectedInfraction[1].id, infractions |-> infractions]})
  /\ UNCHANGED <<backendVars, users, infractions, loading, searchTerm, modalVars,
                 guardVars, loaderVars, navigatedTo, toasts, blockCalls>>

\* resolvePatch with `infraction.id !== infractionId`.
resolvePatchOthers(list, infractionId) ==
  [i \in 1..Len(list) |->
     IF list[i].id # infractionId THEN [list[i] EXCEPT !.status = "resolved"] ELSE list[i]]

\* infractions.map(infraction => infraction.id === infractionId ? {...} : infraction)
resolvePatch(list, infractionId) ==
  [i \in 1..Len(list) |->
     IF list[i].id = infractionId THEN [list[i] EXCEPT !.status = "resolved"] ELSE list[i]]

\* ResolveReturn without setIsInfractionModalOpen(false).
ResolveReturnKeepsModal(call, ok) ==
  /\ answered' = Answer("resolve", call.infractionId, ok)
  /\ BagIn(call, resolveCalls)
  /\ resolveCalls' = resolveCalls (-) SetToBag({call})
  /\ IF ok
       THEN /\ infractions' = resolvePatch(call.infractions, call.infractionId)
            /\ UNCHANGED isInfractionModalOpen
            /\ toast(ResolveSuccess)
       ELSE /\ toast(ResolveError)
            /\ UNCHANGED <<infractions, isInfractionModalOpen>>
  /\ UNCHANGED <<backendVars, users, loading, searchTerm, selectedInfraction,
                 guardVars, loaderVars, navigatedTo, blockCalls, issued>>

\* the backend answers the update; the rest of handleResolveInfraction runs
ResolveReturn(call, ok) ==
  /\ answered' = Answer("resolve", call.infractionId, ok)
  /\ BagIn(call, resolveCalls)
  /\ resolveCalls' = resolveCalls (-) SetToBag({call})
  /\ IF ok
       THEN /\ infractions' = resolvePatch(call.infractions, call.infractionId)
            /\ isInfractionModalOpen' = FALSE
            /\ toast(ResolveSuccess)
       ELSE /\ toast(ResolveError)
            /\ UNCHANGED <<infractions, isInfractionModalOpen>>
  /\ UNCHANGED <<backendVars, users, loading, searchTerm, selectedInfraction,
                 guardVars, loaderVars, navigatedTo, blockCalls, issued>>

\* ---------------------------------------------------------- specification
Next ==
  \/ \E ok \in BOOLEAN : GuardGetUserReturn(ok)
  \/ \E ok \in BOOLEAN : GuardProfileReturn(ok)
  \/ \E ok \in BOOLEAN : LoadUsersReturn(ok)
  \/ \E ok \in BOOLEAN : LoadInfractionsReturn(ok)
  \/ \E q \in TypedTerms : SetSearchTerm(q)
  \/ \E i \in 1..Len(users) : ConfirmBlock(users[i])
  \/ \E call \in BagToSet(blockCalls), ok \in BOOLEAN : BlockReturn(call, ok)
  \/ \E i \in 1..Len(infractions) : ViewInfractionDetails(i)
  \/ CloseModal
  \/ ClickResolve
  \/ \E call \in BagToSet(resolveCalls), ok \in BOOLEAN : ResolveReturn(call, ok)

Spec == Init /\ [][Next]_vars

\* Every query and update that was issued is eventually answered.
Fairness ==
  /\ WF_vars(\E ok \in BOOLEAN : GuardGetUserReturn(ok))
  /\ WF_vars(\E ok \in BOOLEAN : GuardProfileReturn(ok))
  /\ WF_vars(\E ok \in BOOLEAN : LoadUsersReturn(ok))
  /\ WF_vars(\E ok \in BOOLEAN : LoadInfractionsReturn(ok))
  /\ WF_vars(\E call \in BagToSet(blockCalls), ok \in BOOLEAN : BlockReturn(call, ok))
  /\ WF_vars(\E call \in BagToSet(resolveCalls), ok \in BOOLEAN : ResolveReturn(call, ok))

FairSpec == Init /\ [][Next]_vars /\ Fairness

\* ------------------------------------------- the search filter on its own
\* The loaded lists the filter is applied to: users with no display name, an
\* empty one and names in either case, with e-mails in either case, in every order.
FilterNames ==
  {Null, Some(<<>>), Some(<<"a">>), Some(<<"A", "b">>), Some(<<"b", "A">>),
   Some(<<"b", "b", "A">>)}
FilterEmails == {Some(<<"b", "A">>), Some(<<"A", "a", "b">>)}

FilterLists ==
  UNION {{[i \in 1..n |-> User(i, e[i], f[i], "client", "active")] :
            e \in [1..n -> FilterEmails], f \in [1..n -> FilterNames]} :
         n \in 0..MaxFilterUsers}

\* The dashboard right after a successful load of such a list.
FilterInit ==
  /\ sessionUser = 1
  /\ dbProfiles \in FilterLists
  /\ dbInfractions = <<>>
  /\ users = dbProfiles
  /\ infractions = <<>>
  /\ loading = FALSE
  /\ searchTerm = <<>>
  /\ selectedInfraction = Null
  /\ isInfractionModalOpen = FALSE
  /\ guardPc = "getUser"
  /\ guardUser = NoUser
  /\ guardProfile = Absent
  /\ loaderPc = "done"
  /\ loadError = "none"
  /\ navigatedTo = "none"
  /\ toasts = [m \in Messages |-> 0]
  /\ blockCalls = EmptyBag
  /\ resolveCalls = EmptyBag
  /\ issued = 0
  /\ answered = NoAnswer

FilterNext == \E q \in StringsUpTo(MaxQueryLen) : SetSearchTerm(q)

FilterSpec == FilterInit /\ [][FilterNext]_vars

\* ------------------------------------------------------------- properties
\* The position in `list` of the row with this id (0 when there is none).
IndexOf(list, id) ==
  IF \E i \in 1..Len(list) : list[i].id = id
    THEN CHOOSE i \in 1..Len(list) : list[i].id = id
    ELSE 0

\* C1: when block(U) completes successfully, the local user list right after has
\* U inactive and differs from the list right before in no entry other than U,
\* also when several block requests are in flight at the same time.
C1_BlockChangesOnlyTarget ==
  [][(answered'.op = "block" /\ answered'.ok) =>
       /\ Len(users') = Len(users)
       /\ \A i \in 1..Len(users) :
            IF users[i].id = answered'.id
              THEN users'[i].status = "inactive"
              ELSE users'[i] = users[i]]_vars

\* C2: after the initial load, a profile whose local status has become inactive
\* never becomes active again and an infraction whose local status has become
\* resolved never becomes pending again.
C2_TerminalStatusesStay ==
  [][/\ \A i \in 1..Len(users) :
          users[i].status = "inactive" =>
            i <= Len(users') /\ users'[i].status = "inactive"
     /\ \A i \in 1..Len(infractions) :
          infractions[i].status = "resolved" =>
            i <= Len(infractions') /\ infractions'[i].status = "resolved"]_vars

\* C3: whenever resolve(I) completes successfully, I is resolved in the local
\* list, the modal is closed and the success notification has been emitted;
\* whenever it fails, the list and the modal's open flag are unchanged and the
\* error notification is emitted instead.
C3_ResolveOutcome ==
  [][answered'.op = "resolve" =>
       IF answered'.ok
         THEN /\ IndexOf(infractions', answered'.id) # 0
              /\ infractions'[IndexOf(infractions', answered'.id)].status = "resolved"
              /\ ~isInfractionModalOpen'
              /\ toasts'[ResolveSuccess] = toasts[ResolveSuccess] + 1
              /\ toasts'[ResolveError] = toasts[ResolveError]
         ELSE /\ infractions' = infractions
              /\ isInfractionModalOpen' = isInfractionModalOpen
              /\ toasts'[ResolveError] = toasts[ResolveError] + 1
              /\ toasts'[ResolveSuccess] = toasts[ResolveSuccess]]_vars

\* A resolve has just succeeded while another resolve request is still in flight.
C3_Witness ==
  /\ answered.op = "resolve"
  /\ answered.ok
  /\ resolveCalls # EmptyBag

\* C4: if the detail modal is open and offers the resolve action for the selected
\* infraction, that infraction is pending in the loaded infraction list.
C4_ResolveOfferedOnlyForPending ==
  ResolveOffered =>
    /\ IndexOf(infractions, selectedInfraction[1].id) # 0
    /\ infractions[IndexOf(infractions, selectedInfraction[1].id)].status = "pending"

\* The resolve action is offered after another infraction was resolved in this
\* view, with a resolve request still in flight.
C4_Witness ==
  /\ ResolveOffered
  /\ resolveCalls # EmptyBag
  /\ \E i \in 1..Len(infractions) :
       infractions[i].status = "resolved" /\ dbInfractions[i].status = "pending"

C6_GuardOutcome ==
  /\ guardUser \in {NoUser, sessionUser}
  /\ toasts[AccessDenied] <= 1
  /\ guardPc # "done" => navigatedTo = "none" /\ toasts[AccessDenied] = 0
  /\ guardPc = "done" =>
       IF guardUser = NoUser
         THEN navigatedTo = "/auth" /\ toasts[AccessDenied] = 0
         ELSE IF guardProfile = "admin"
                THEN navigatedTo = "none" /\ toasts[AccessDenied] = 0
                ELSE navigatedTo = "/" /\ toasts[AccessDenied] = 1

\* The guard has sent a client away after the dashboard was rendered.
C6_Witness ==
  /\ guardPc = "done"
  /\ guardUser # NoUser
  /\ guardProfile = "client"
  /\ navigatedTo = "/"
  /\ ~loading

\* C7: once the loader's queries have returned, loading is false whether both
\* succeeded or either failed, and the notification "Error al cargar los datos"
\* has been emitted exactly once if one failed (never otherwise); if every query
\* returns, loading eventually becomes false and stays false.
C7_LoadingClears ==
  /\ [](loaderPc = "done" =>
          /\ ~loading
          /\ toasts[LoadError] = IF loadError = "none" THEN 0 ELSE 1)
  /\ [](loaderPc # "done" => loading /\ toasts[LoadError] = 0)
  /\ <>[](~loading)

\* The infractions query has failed after the profiles query succeeded.
C7_Witness ==
  /\ loaderPc = "done"
  /\ loadError = "infractions"
  /\ ~loading
  /\ toasts[LoadError] = 1

\* The case-insensitive comparison of two characters.
SameLetter(c, d) == c = d \/ {c, d} = {"a", "A"}

\* `field` is there and contains `q`, case-insensitively, as a substring.
ContainsIgnoringCase(field, q) ==
  /\ field # Null
  /\ \E k \in 0..(Len(field[1]) - Len(q)) :
       \A j \in 1..Len(q) : SameLetter(field[1][k + j], q[j])

\* The positions of the loaded users that the search query selects.
Selected ==
  {i \in 1..Len(users) :
     \/ ContainsIgnoringCase(users[i].full_name, searchTerm)
     \/ ContainsIgnoringCase(users[i].email, searchTerm)}

\* The k-th selected position, in the original order.
NthSelected(k) == CHOOSE i \in Selected : Cardinality({j \in Selected : j < i}) = k - 1

\* C8: the displayed list is exactly the sublist of the users whose display name
\* or e-mail contains the query case-insensitively, in the original order; with
\* the empty query it is the full loaded list, users without display name included.
C8_FilterIsMatchingSublist ==
  /\ Len(filteredUsers) = Cardinality(Selected)
  /\ \A k \in 1..Len(filteredUsers) : filteredUsers[k] = users[NthSelected(k)]
  /\ searchTerm = <<>> => filteredUsers = users

\* A query in mixed case selects the second of two users and drops the first,
\* which has no display name and an e-mail that does not contain the query.
C8_Witness ==
  /\ Len(users) = 2
  /\ users[1].full_name = Null
  /\ searchTerm = <<"A", "b">>
  /\ filteredUsers = <<users[2]>>

\* C9 as stated: if either of the two read queries fails, after the loader
\* finishes both local lists equal their values from before the loader started.
C9_ReadFailureLeavesPriorState ==
  [][(loaderPc # "done" /\ loaderPc' = "done" /\ loadError' # "none") =>
       users' = <<>> /\ infractions' = <<>>]_vars

\* C9 amended: if the profiles query fails, both local lists equal their values
\* from before the loader started; if the infractions query fails after the
\* profiles query succeeded, the infraction list equals its prior value and the
\* user list is the loaded profiles.
C9_ReadFailureKeepsFailedList ==
  [][(loaderPc # "done" /\ loaderPc' = "done" /\ loadError' # "none") =>
       IF loadError' = "users"
         THEN users' = <<>> /\ infractions' = <<>>
         ELSE users' = dbProfiles /\ infractions' = <<>>]_vars

\* The infractions query has failed and the loaded profiles are on screen.
C9_Witness ==
  /\ loaderPc = "done"
  /\ loadError = "infractions"
  /\ users # <<>>
  /\ infractions = <<>>
  /\ dbInfractions # <<>>

\* The session is not an admin's: there is none, or its profile is missing or
\* has another role.
NonAdminSession == ProfileUserType(sessionUser, TRUE) # "admin"

\* The dashboard is rendered with loaded data before the guard has finished.
RenderedBeforeGuard ==
  /\ NonAdminSession
  /\ DashboardRendered
  /\ guardPc # "done"
  /\ users # <<>>
  /\ infractions # <<>>

\* C10: for a session that is not an admin's the loader can complete and the
\* dashboard be rendered with the loaded data before the guard has navigated
\* away, and the guard's redirect still happens afterwards in every such run.
C10_RedirectAfterRender ==
  RenderedBeforeGuard ~> (navigatedTo \in {"/auth", "/"} /\ guardPc = "done")

\* The race of C10, with a block already confirmed by the session that is to be
\* sent away.
C10_Witness ==
  /\ RenderedBeforeGuard
  /\ blockCalls # EmptyBag

====
